---- MODULE Spec2Model ----
(***************************************************************************)
(* A model of the totp command line program (src/src/main.rs): main, totp, *)
(* read_line_from_stdin and print_error_and_exit.                          *)
(*                                                                         *)
(* Text is a sequence of Unicode code points, bytes are 0..255, a u64 is   *)
(* its 8 big-endian bytes (what to_be_bytes gives), a u32 that may not fit *)
(* a TLC integer is a pair <<high 16 bits, low 16 bits>>.                  *)
(***************************************************************************)
EXTENDS Integers, Sequences, FiniteSets, TLC

VARIABLES
    pc,                            \* where the run is
    argv,                          \* Args: base32_secret, interval, epoch, digits, seconds_since_epoch
    stdin,                         \* what read_line meets on standard input
    clock,                         \* what SystemTime::now() meets
    overflow_checks,               \* the build profile: arithmetic overflow panics (debug) or wraps (release)
    secret,                        \* totp's parameter secret
    digits,                        \* totp's parameter digits
    epoch,                         \* totp's parameter epoch
    interval,                      \* totp's parameter interval
    optional_seconds_since_epoch,  \* totp's parameter optional_seconds_since_epoch
    secret_bytes,                  \* totp's local secret_bytes
    seconds_since_epoch,           \* totp's local seconds_since_epoch
    counter,                       \* the u64 handed to hmac.update
    digest,                        \* totp's local result (the 20 bytes of the HMAC)
    result,                        \* what totp returns (or the panic that leaves it)
    stdout,                        \* text written to standard output
    stderr,                        \* text written to standard error
    exit_code                      \* the process' exit status

vars == <<pc, argv, stdin, clock, overflow_checks, secret, digits, epoch, interval,
          optional_seconds_since_epoch, secret_bytes, seconds_since_epoch, counter,
          digest, result, stdout, stderr, exit_code>>

\* Option, Result and a panic leaving the function.
None == [tag |-> "None"]
Some(v) == [tag |-> "Some", value |-> v]
Ok(v) == [tag |-> "Ok", value |-> v]
Err(m) == [tag |-> "Err", msg |-> m]
Panic(m) == [tag |-> "Panic", msg |-> m]
\* A local that has not been assigned yet.
Unset == [tag |-> "Unset"]

(***************************************************************************)
(* Text.                                                                   *)
(***************************************************************************)
IsAsciiLower(c) == c >= 97 /\ c <= 122
IsAsciiUpper(c) == c >= 65 /\ c <= 90

\* u8::to_ascii_uppercase on every byte: only a..z change.
ToAsciiUppercase(s) == [i \in 1..Len(s) |-> IF IsAsciiLower(s[i]) THEN s[i] - 32 ELSE s[i]]

\* char::to_uppercase, the code points above U+007F with one upper-case code point:
\* <<first, last, step, delta>> maps first, first + step, .. last to themselves + delta
\* (the case mappings of the Unicode Character Database, version 17).
UppercaseRuns ==
    <<
     <<181, 181, 1, 743>>, <<224, 246, 1, -32>>, <<248, 254, 1, -32>>, <<255, 255, 1, 121>>,
     <<257, 303, 2, -1>>, <<305, 305, 1, -232>>, <<307, 311, 2, -1>>, <<314, 328, 2, -1>>,
     <<331, 375, 2, -1>>, <<378, 382, 2, -1>>, <<383, 383, 1, -300>>, <<384, 384, 1, 195>>,
     <<387, 389, 2, -1>>, <<392, 392, 1, -1>>, <<396, 396, 1, -1>>, <<402, 402, 1, -1>>,
     <<405, 405, 1, 97>>, <<409, 409, 1, -1>>, <<410, 410, 1, 163>>, <<411, 411, 1, 42561>>,
     <<414, 414, 1, 130>>, <<417, 421, 2, -1>>, <<424, 424, 1, -1>>, <<429, 429, 1, -1>>,
     <<432, 432, 1, -1>>, <<436, 438, 2, -1>>, <<441, 441, 1, -1>>, <<445, 445, 1, -1>>,
     <<447, 447, 1, 56>>, <<453, 453, 1, -1>>, <<454, 454, 1, -2>>, <<456, 456, 1, -1>>,
     <<457, 457, 1, -2>>, <<459, 459, 1, -1>>, <<460, 460, 1, -2>>, <<462, 476, 2, -1>>,
     <<477, 477, 1, -79>>, <<479, 495, 2, -1>>, <<498, 498, 1, -1>>, <<499, 499, 1, -2>>,
     <<501, 501, 1, -1>>, <<505, 543, 2, -1>>, <<547, 563, 2, -1>>, <<572, 572, 1, -1>>,
     <<575, 576, 1, 10815>>, <<578, 578, 1, -1>>, <<583, 591, 2, -1>>, <<592, 592, 1, 10783>>,
     <<593, 593, 1, 10780>>, <<594, 594, 1, 10782>>, <<595, 595, 1, -210>>,
     <<596, 596, 1, -206>>, <<598, 599, 1, -205>>, <<601, 601, 1, -202>>,
     <<603, 603, 1, -203>>, <<604, 604, 1, 42319>>, <<608, 608, 1, -205>>,
     <<609, 609, 1, 42315>>, <<611, 611, 1, -207>>, <<612, 612, 1, 42343>>,
     <<613, 613, 1, 42280>>, <<614, 614, 1, 42308>>, <<616, 616, 1, -209>>,
     <<617, 617, 1, -211>>, <<618, 618, 1, 42308>>, <<619, 619, 1, 10743>>,
     <<620, 620, 1, 42305>>, <<623, 623, 1, -211>>, <<625, 625, 1, 10749>>,
     <<626, 626, 1, -213>>, <<629, 629, 1, -214>>, <<637, 637, 1, 10727>>,
     <<640, 640, 1, -218>>, <<642, 642, 1, 42307>>, <<643, 643, 1, -218>>,
     <<647, 647, 1, 42282>>, <<648, 648, 1, -218>>, <<649, 649, 1, -69>>,
     <<650, 651, 1, -217>>, <<652, 652, 1, -71>>, <<658, 658, 1, -219>>,
     <<669, 669, 1, 42261>>, <<670, 670, 1, 42258>>, <<837, 837, 1, 84>>, <<881, 883, 2, -1>>,
     <<887, 887, 1, -1>>, <<891, 893, 1, 130>>, <<940, 940, 1, -38>>, <<941, 943, 1, -37>>,
     <<945, 961, 1, -32>>, <<962, 962, 1, -31>>, <<963, 971, 1, -32>>, <<972, 972, 1, -64>>,
     <<973, 974, 1, -63>>, <<976, 976, 1, -62>>, <<977, 977, 1, -57>>, <<981, 981, 1, -47>>,
     <<982, 982, 1, -54>>, <<983, 983, 1, -8>>, <<985, 1007, 2, -1>>, <<1008, 1008, 1, -86>>,
     <<1009, 1009, 1, -80>>, <<1010, 1010, 1, 7>>, <<1011, 1011, 1, -116>>,
     <<1013, 1013, 1, -96>>, <<1016, 1016, 1, -1>>, <<1019, 1019, 1, -1>>,
     <<1072, 1103, 1, -32>>, <<1104, 1119, 1, -80>>, <<1121, 1153, 2, -1>>,
     <<1163, 1215, 2, -1>>, <<1218, 1230, 2, -1>>, <<1231, 1231, 1, -15>>,
     <<1233, 1327, 2, -1>>, <<1377, 1414, 1, -48>>, <<4304, 4346, 1, 3008>>,
     <<4349, 4351, 1, 3008>>, <<5112, 5117, 1, -8>>, <<7296, 7296, 1, -6254>>,
     <<7297, 7297, 1, -6253>>, <<7298, 7298, 1, -6244>>, <<7299, 7300, 1, -6242>>,
     <<7301, 7301, 1, -6243>>, <<7302, 7302, 1, -6236>>, <<7303, 7303, 1, -6181>>,
     <<7304, 7304, 1, 35266>>, <<7306, 7306, 1, -1>>, <<7545, 7545, 1, 35332>>,
     <<7549, 7549, 1, 3814>>, <<7566, 7566, 1, 35384>>, <<7681, 7829, 2, -1>>,
     <<7835, 7835, 1, -59>>, <<7841, 7935, 2, -1>>, <<7936, 7943, 1, 8>>, <<7952, 7957, 1, 8>>,
     <<7968, 7975, 1, 8>>, <<7984, 7991, 1, 8>>, <<8000, 8005, 1, 8>>, <<8017, 8023, 2, 8>>,
     <<8032, 8039, 1, 8>>, <<8048, 8049, 1, 74>>, <<8050, 8053, 1, 86>>,
     <<8054, 8055, 1, 100>>, <<8056, 8057, 1, 128>>, <<8058, 8059, 1, 112>>,
     <<8060, 8061, 1, 126>>, <<8112, 8113, 1, 8>>, <<8126, 8126, 1, -7205>>,
     <<8144, 8145, 1, 8>>, <<8160, 8161, 1, 8>>, <<8165, 8165, 1, 7>>, <<8526, 8526, 1, -28>>,
     <<8560, 8575, 1, -16>>, <<8580, 8580, 1, -1>>, <<9424, 9449, 1, -26>>,
     <<11312, 11359, 1, -48>>, <<11361, 11361, 1, -1>>, <<11365, 11365, 1, -10795>>,
     <<11366, 11366, 1, -10792>>, <<11368, 11372, 2, -1>>, <<11379, 11379, 1, -1>>,
     <<11382, 11382, 1, -1>>, <<11393, 11491, 2, -1>>, <<11500, 11502, 2, -1>>,
     <<11507, 11507, 1, -1>>, <<11520, 11557, 1, -7264>>, <<11559, 11559, 1, -7264>>,
     <<11565, 11565, 1, -7264>>, <<42561, 42605, 2, -1>>, <<42625, 42651, 2, -1>>,
     <<42787, 42799, 2, -1>>, <<42803, 42863, 2, -1>>, <<42874, 42876, 2, -1>>,
     <<42879, 42887, 2, -1>>, <<42892, 42892, 1, -1>>, <<42897, 42899, 2, -1>>,
     <<42900, 42900, 1, 48>>, <<42903, 42921, 2, -1>>, <<42933, 42947, 2, -1>>,
     <<42952, 42954, 2, -1>>, <<42957, 42971, 2, -1>>, <<42998, 42998, 1, -1>>,
     <<43859, 43859, 1, -928>>, <<43888, 43967, 1, -38864>>, <<65345, 65370, 1, -32>>,
     <<66600, 66639, 1, -40>>, <<66776, 66811, 1, -40>>, <<66967, 67003, 2, -39>>,
     <<66968, 66976, 2, -39>>, <<66980, 66992, 2, -39>>, <<66996, 67000, 2, -39>>,
     <<67004, 67004, 1, -39>>, <<68800, 68850, 1, -64>>, <<68976, 68997, 1, -32>>,
     <<71872, 71903, 1, -32>>, <<93792, 93823, 1, -32>>, <<93883, 93907, 1, -27>>,
     <<125218, 125251, 1, -34>>
    >>

\* char::to_uppercase, the code points that become several (sharp s to SS, the
\* ligatures to their letters): <<code point, its upper case>>.
UppercaseSpecial ==
    <<
     <<223, <<83, 83>>>>, <<329, <<700, 78>>>>, <<496, <<74, 780>>>>,
     <<912, <<921, 776, 769>>>>, <<944, <<933, 776, 769>>>>, <<1415, <<1333, 1362>>>>,
     <<7830, <<72, 817>>>>, <<7831, <<84, 776>>>>, <<7832, <<87, 778>>>>,
     <<7833, <<89, 778>>>>, <<7834, <<65, 702>>>>, <<8016, <<933, 787>>>>,
     <<8018, <<933, 787, 768>>>>, <<8020, <<933, 787, 769>>>>, <<8022, <<933, 787, 834>>>>,
     <<8064, <<7944, 921>>>>, <<8065, <<7945, 921>>>>, <<8066, <<7946, 921>>>>,
     <<8067, <<7947, 921>>>>, <<8068, <<7948, 921>>>>, <<8069, <<7949, 921>>>>,
     <<8070, <<7950, 921>>>>, <<8071, <<7951, 921>>>>, <<8072, <<7944, 921>>>>,
     <<8073, <<7945, 921>>>>, <<8074, <<7946, 921>>>>, <<8075, <<7947, 921>>>>,
     <<8076, <<7948, 921>>>>, <<8077, <<7949, 921>>>>, <<8078, <<7950, 921>>>>,
     <<8079, <<7951, 921>>>>, <<8080, <<7976, 921>>>>, <<8081, <<7977, 921>>>>,
     <<8082, <<7978, 921>>>>, <<8083, <<7979, 921>>>>, <<8084, <<7980, 921>>>>,
     <<8085, <<7981, 921>>>>, <<8086, <<7982, 921>>>>, <<8087, <<7983, 921>>>>,
     <<8088, <<7976, 921>>>>, <<8089, <<7977, 921>>>>, <<8090, <<7978, 921>>>>,
     <<8091, <<7979, 921>>>>, <<8092, <<7980, 921>>>>, <<8093, <<7981, 921>>>>,
     <<8094, <<7982, 921>>>>, <<8095, <<7983, 921>>>>, <<8096, <<8040, 921>>>>,
     <<8097, <<8041, 921>>>>, <<8098, <<8042, 921>>>>, <<8099, <<8043, 921>>>>,
     <<8100, <<8044, 921>>>>, <<8101, <<8045, 921>>>>, <<8102, <<8046, 921>>>>,
     <<8103, <<8047, 921>>>>, <<8104, <<8040, 921>>>>, <<8105, <<8041, 921>>>>,
     <<8106, <<8042, 921>>>>, <<8107, <<8043, 921>>>>, <<8108, <<8044, 921>>>>,
     <<8109, <<8045, 921>>>>, <<8110, <<8046, 921>>>>, <<8111, <<8047, 921>>>>,
     <<8114, <<8122, 921>>>>, <<8115, <<913, 921>>>>, <<8116, <<902, 921>>>>,
     <<8118, <<913, 834>>>>, <<8119, <<913, 834, 921>>>>, <<8124, <<913, 921>>>>,
     <<8130, <<8138, 921>>>>, <<8131, <<919, 921>>>>, <<8132, <<905, 921>>>>,
     <<8134, <<919, 834>>>>, <<8135, <<919, 834, 921>>>>, <<8140, <<919, 921>>>>,
     <<8146, <<921, 776, 768>>>>, <<8147, <<921, 776, 769>>>>, <<8150, <<921, 834>>>>,
     <<8151, <<921, 776, 834>>>>, <<8162, <<933, 776, 768>>>>, <<8163, <<933, 776, 769>>>>,
     <<8164, <<929, 787>>>>, <<8166, <<933, 834>>>>, <<8167, <<933, 776, 834>>>>,
     <<8178, <<8186, 921>>>>, <<8179, <<937, 921>>>>, <<8180, <<911, 921>>>>,
     <<8182, <<937, 834>>>>, <<8183, <<937, 834, 921>>>>, <<8188, <<937, 921>>>>,
     <<64256, <<70, 70>>>>, <<64257, <<70, 73>>>>, <<64258, <<70, 76>>>>,
     <<64259, <<70, 70, 73>>>>, <<64260, <<70, 70, 76>>>>, <<64261, <<83, 84>>>>,
     <<64262, <<83, 84>>>>, <<64275, <<1348, 1350>>>>, <<64276, <<1348, 1333>>>>,
     <<64277, <<1348, 1339>>>>, <<64278, <<1358, 1350>>>>, <<64279, <<1348, 1341>>>>
    >>

\* char::to_uppercase: the upper case of one code point, one or several code points.
CharToUppercase(c) ==
    IF c < 128 THEN <<IF IsAsciiLower(c) THEN c - 32 ELSE c>>
    ELSE LET special == {i \in 1..Len(UppercaseSpecial) : UppercaseSpecial[i][1] = c}
             runs == {i \in 1..Len(UppercaseRuns) :
                        /\ UppercaseRuns[i][1] <= c
                        /\ c <= UppercaseRuns[i][2]
                        /\ (c - UppercaseRuns[i][1]) % UppercaseRuns[i][3] = 0}
         IN IF special # {} THEN UppercaseSpecial[CHOOSE i \in special : TRUE][2]
            ELSE IF runs # {} THEN <<c + UppercaseRuns[CHOOSE i \in runs : TRUE][4]>>
            ELSE <<c>>

\* Mutant: the secret is decoded as it was typed.
ToUppercaseForgotten(s) == s

\* str::to_uppercase: the upper case of every code point, one after the other.
RECURSIVE ToUppercase(_)
ToUppercase(s) ==
    IF Len(s) = 0 THEN <<>>
    ELSE CharToUppercase(s[1]) \o ToUppercase(Tail(s))

\* char::is_whitespace: the code points with the property White_Space.
IsWhitespace(c) ==
    \/ c >= 9 /\ c <= 13
    \/ c \in {32, 133, 160, 5760, 8232, 8233, 8239, 8287, 12288}
    \/ c >= 8192 /\ c <= 8202

\* str::trim: leading and trailing whitespace removed.
RECURSIVE TrimStart(_)
TrimStart(s) ==
    IF Len(s) > 0 /\ IsWhitespace(s[1]) THEN TrimStart(Tail(s)) ELSE s

RECURSIVE TrimEnd(_)
TrimEnd(s) ==
    IF Len(s) > 0 /\ IsWhitespace(s[Len(s)]) THEN TrimEnd(SubSeq(s, 1, Len(s) - 1)) ELSE s

Trim(s) == TrimEnd(TrimStart(s))

(***************************************************************************)
(* base32::decode(Alphabet::Rfc4648 { padding: false }, s).                *)
(***************************************************************************)
\* The value of a character of the alphabet A-Z 2-7, -1 for any other.
Base32Value(c) ==
    IF IsAsciiUpper(c) THEN c - 65
    ELSE IF c >= 50 /\ c <= 55 THEN c - 24
    ELSE -1

\* The 8 values of a chunk of up to 8 characters, zeros after its end.
ChunkValues(chunk) == [i \in 1..8 |-> IF i <= Len(chunk) THEN Base32Value(chunk[i]) ELSE 0]

\* The 5 bytes of a chunk; shifts are u8 shifts, so they drop the high bits.
ChunkBytes(b) ==
    << ((b[1] * 8) % 256) + (b[2] \div 4),
       ((b[2] * 64) % 256) + (b[3] * 2) + (b[4] \div 16),
       ((b[4] * 16) % 256) + (b[5] \div 2),
       ((b[5] * 128) % 256) + (b[6] * 4) + (b[7] \div 8),
       ((b[7] * 32) % 256) + b[8] >>

RECURSIVE DecodeChunks(_)
DecodeChunks(s) ==
    IF Len(s) = 0 THEN <<>>
    ELSE IF Len(s) <= 8 THEN ChunkBytes(ChunkValues(s))
    ELSE ChunkBytes(ChunkValues(SubSeq(s, 1, 8))) \o DecodeChunks(SubSeq(s, 9, Len(s)))

\* None when a character is not of the alphabet, else the whole bytes the
\* characters hold: floor(5 * len / 8) of them.
Base32Decode(s) ==
    IF \E i \in 1..Len(s) : Base32Value(s[i]) = -1 THEN None
    ELSE Some(SubSeq(DecodeChunks(s), 1, (Len(s) * 5) \div 8))

(***************************************************************************)
(* u64 arithmetic on 8 big-endian bytes.                                   *)
(***************************************************************************)
\* n.to_be_bytes() of a u64 below 2^31.
U64(n) == <<0, 0, 0, 0, n \div 16777216, (n \div 65536) % 256, (n \div 256) % 256, n % 256>>

\* a < b, most significant byte first.
RECURSIVE BytesLess(_, _)
BytesLess(a, b) ==
    IF Len(a) = 0 THEN FALSE
    ELSE IF a[1] # b[1] THEN a[1] < b[1]
    ELSE BytesLess(Tail(a), Tail(b))

\* (a - b) mod 2^64: byte i with the borrow of the bytes after it.
RECURSIVE SubBorrow(_, _, _)
SubBorrow(a, b, i) ==
    IF i > Len(a) THEN 0
    ELSE IF a[i] - b[i] - SubBorrow(a, b, i + 1) < 0 THEN 1 ELSE 0

WrappingSub(a, b) ==
    [i \in 1..Len(a) |-> (a[i] - b[i] - SubBorrow(a, b, i + 1) + 256) % 256] \o <<>>

\* a / d for a divisor 0 < d < 2^23: long division, most significant byte first.
RECURSIVE DivRem(_, _, _)
DivRem(a, d, i) ==
    IF i = 0 THEN 0
    ELSE (DivRem(a, d, i - 1) * 256 + a[i]) % d

DivU64(a, d) ==
    [i \in 1..Len(a) |-> (DivRem(a, d, i - 1) * 256 + a[i]) \div d] \o <<>>

(***************************************************************************)
(* Hmac<Sha1>: HMAC (RFC 2104) over SHA-1 (FIPS 180-4).  A 32-bit word is  *)
(* <<high 16 bits, low 16 bits>>.                                          *)
(***************************************************************************)
RECURSIVE AndBits(_, _)
AndBits(a, b) ==
    IF a = 0 \/ b = 0 THEN 0
    ELSE (a % 2) * (b % 2) + 2 * AndBits(a \div 2, b \div 2)

\* a AND b for every pair of bytes, computed once.
AndTable == [a \in 1..256 |-> [b \in 1..256 |-> AndBits(a - 1, b - 1)] \o <<>>] \o <<>>

And8(a, b) == AndTable[a + 1][b + 1]
Xor8(a, b) == a + b - 2 * And8(a, b)
And16(a, b) == And8(a \div 256, b \div 256) * 256 + And8(a % 256, b % 256)
Xor16(a, b) == a + b - 2 * And16(a, b)
Not16(a) == 65535 - a

WAnd(x, y) == <<And16(x[1], y[1]), And16(x[2], y[2])>>
WXor(x, y) == <<Xor16(x[1], y[1]), Xor16(x[2], y[2])>>
WNot(x) == <<Not16(x[1]), Not16(x[2])>>

\* (x + y) mod 2^32.
WAdd(x, y) ==
    LET lo == x[2] + y[2]
        hi == x[1] + y[1] + (lo \div 65536)
    IN <<hi % 65536, lo % 65536>>

\* x rotated left by n bits, 0 < n < 32.
RotlSmall(x, n) ==
    <<((x[1] * (2 ^ n)) % 65536) + (x[2] \div (2 ^ (16 - n))),
      ((x[2] * (2 ^ n)) % 65536) + (x[1] \div (2 ^ (16 - n)))>>

Rotl(x, n) ==
    IF n = 16 THEN <<x[2], x[1]>>
    ELSE IF n < 16 THEN RotlSmall(x, n)
    ELSE RotlSmall(<<x[2], x[1]>>, n - 16)

\* The round function f_t and the round constant K_t.
ShaF(t, b, c, d) ==
    IF t < 20 THEN WXor(WAnd(b, c), WAnd(WNot(b), d))
    ELSE IF t < 40 THEN WXor(WXor(b, c), d)
    ELSE IF t < 60 THEN WXor(WXor(WAnd(b, c), WAnd(b, d)), WAnd(c, d))
    ELSE WXor(WXor(b, c), d)

ShaK(t) ==
    IF t < 20 THEN <<23170, 31129>>
    ELSE IF t < 40 THEN <<28377, 60321>>
    ELSE IF t < 60 THEN <<36635, 48348>>
    ELSE <<51810, 49622>>

\* The message schedule: the 16 words of a block extended to 80.
RECURSIVE Schedule(_)
Schedule(w) ==
    IF Len(w) = 80 THEN w
    ELSE LET n == Len(w) + 1
             x == WXor(WXor(w[n - 3], w[n - 8]), WXor(w[n - 14], w[n - 16]))
         IN Schedule(Append(w, Rotl(x, 1)))

\* Round t on the working variables s = <<a, b, c, d, e>>.
Round(w, t, s) ==
    LET tmp == WAdd(WAdd(WAdd(Rotl(s[1], 5), ShaF(t, s[2], s[3], s[4])),
                         WAdd(s[5], ShaK(t))), w[t + 1])
    IN <<tmp, s[1], Rotl(s[2], 30), s[3], s[4]>>

\* The working variables before round 0 and after each of the 80 rounds.
RECURSIVE RoundStates(_, _)
RoundStates(w, ss) ==
    IF Len(ss) = 81 THEN ss
    ELSE RoundStates(w, Append(ss, Round(w, Len(ss) - 1, ss[Len(ss)])))

\* The 16 big-endian words of a 64-byte block.
WordsOf(block) ==
    [i \in 1..16 |-> <<block[4 * i - 3] * 256 + block[4 * i - 2],
                       block[4 * i - 1] * 256 + block[4 * i]>>] \o <<>>

Compress(h, block) ==
    LET s == RoundStates(Schedule(WordsOf(block)), <<h>>)[81]
    IN <<WAdd(h[1], s[1]), WAdd(h[2], s[2]), WAdd(h[3], s[3]),
         WAdd(h[4], s[4]), WAdd(h[5], s[5])>>

ShaInit ==
    <<<<26437, 8961>>, <<61389, 43913>>, <<39098, 56574>>, <<4146, 21622>>, <<50130, 57840>>>>

Zeros(n) == [i \in 1..n |-> 0]

\* The message length in bits, 8 bytes big-endian (messages below 2^21 bytes).
BitLength(n) ==
    <<0, 0, 0, 0, 0, (n * 8) \div 65536, ((n * 8) \div 256) % 256, (n * 8) % 256>>

\* The message, a 1 bit, zeros to 56 mod 64 bytes, and the length.
ShaPad(msg) ==
    msg \o <<128>> \o Zeros((119 - (Len(msg) % 64)) % 64) \o BitLength(Len(msg))

RECURSIVE ShaBlocks(_, _)
ShaBlocks(h, m) ==
    IF Len(m) = 0 THEN h
    ELSE ShaBlocks(Compress(h, SubSeq(m, 1, 64)), SubSeq(m, 65, Len(m)))

WordBytes(x) == <<x[1] \div 256, x[1] % 256, x[2] \div 256, x[2] % 256>>

Sha1(msg) ==
    LET h == ShaBlocks(ShaInit, ShaPad(msg))
    IN WordBytes(h[1]) \o WordBytes(h[2]) \o WordBytes(h[3]) \o WordBytes(h[4])
           \o WordBytes(h[5])

\* Mac::new_from_slice(key), update(msg), finalize().into_bytes().
HmacSha1(key, msg) ==
    LET k0 == IF Len(key) > 64 THEN Sha1(key) ELSE key
        k == k0 \o Zeros(64 - Len(k0))
        ipad == [i \in 1..64 |-> Xor8(k[i], 54)]
        opad == [i \in 1..64 |-> Xor8(k[i], 92)]
    IN Sha1(opad \o Sha1(ipad \o msg))

(***************************************************************************)
(* totp, piece by piece.                                                   *)
(***************************************************************************)
\* Mutant: epoch is subtracted from an explicit timestamp as well.
SecondsSinceEpochAlwaysSubtracting(opt, clk, ep, checks) ==
    IF opt.tag = "None" /\ clk.tag = "Err" THEN Panic("Time went backwards")
    ELSE LET t == IF opt.tag = "Some" THEN opt.value ELSE clk.value
         IN IF BytesLess(U64(t), U64(ep)) /\ checks
            THEN Panic("attempt to subtract with overflow")
            ELSE Ok(WrappingSub(U64(t), U64(ep)))

\* optional_seconds_since_epoch.unwrap_or_else(|| now - epoch): the value given
\* is taken as it is; only the clock's reading has epoch subtracted from it.
SecondsSinceEpoch(opt, clk, ep, checks) ==
    IF opt.tag = "Some" THEN Ok(U64(opt.value))
    ELSE IF clk.tag = "Err" THEN Panic("Time went backwards")
    ELSE IF BytesLess(U64(clk.value), U64(ep))
         THEN IF checks THEN Panic("attempt to subtract with overflow")
              ELSE Ok(WrappingSub(U64(clk.value), U64(ep)))
    ELSE Ok(WrappingSub(U64(clk.value), U64(ep)))

\* Mutant: the seconds are hashed without the division.
CounterOfUndivided(seconds, ivl) ==
    IF ivl = 0 THEN Panic("attempt to divide by zero")
    ELSE Ok(seconds)

\* seconds_since_epoch / interval.
CounterOf(seconds, ivl) ==
    IF ivl = 0 THEN Panic("attempt to divide by zero")
    ELSE Ok(DivU64(seconds, ivl))

\* Mutant: a mask of five bits.
OffsetFiveBits(d) == d[20] % 32

\* (result[19] & 0b1111) as usize.
Offset(d) == d[20] % 16

\* u32::from_be_bytes(w) & 0x7fff_ffff.
MaskedValue(w) == (w[1] % 128) * 16777216 + w[2] * 65536 + w[3] * 256 + w[4]

\* Mutant: a wrapping multiplication in every build.
Mul10Wrapping(x) ==
    LET lo == x[2] * 10
        hi == x[1] * 10 + (lo \div 65536)
    IN [value |-> <<hi % 65536, lo % 65536>>, overflow |-> FALSE]

\* x * 10 in u32: the wrapped product and whether it overflowed.
Mul10(x) ==
    LET lo == x[2] * 10
        hi == x[1] * 10 + (lo \div 65536)
    IN [value |-> <<hi % 65536, lo % 65536>>, overflow |-> hi >= 65536]

\* 10u32.pow(d): the power mod 2^32 and whether it overflowed.
RECURSIVE Pow10(_)
Pow10(d) ==
    IF d = 0 THEN [value |-> <<0, 1>>, overflow |-> FALSE]
    ELSE LET p == Pow10(d - 1)
             m == Mul10(p.value)
         IN [value |-> m.value, overflow |-> p.overflow \/ m.overflow]

\* Mutant: the modulus is left out.
RemU32Forgotten(v, m) == v

\* v % m for v below 2^31 and a u32 m that is not zero.
RemU32(v, m) ==
    IF m[1] >= 32768 THEN v
    ELSE v % (m[1] * 65536 + m[2])

\* (u32::from_be_bytes(result[offset..offset + 4]) & 0x7fff_ffff) % 10u32.pow(digits)
Truncate(d, dig, checks) ==
    LET offset == Offset(d)
    IN IF offset + 4 > Len(d) THEN Panic("range end index out of range for slice")
       ELSE LET value == MaskedValue(SubSeq(d, offset + 1, offset + 4))
                p == Pow10(dig)
            IN IF p.overflow /\ checks THEN Panic("attempt to multiply with overflow")
               ELSE IF p.value = <<0, 0>>
                    THEN Panic("attempt to calculate the remainder with a divisor of zero")
               ELSE Ok(RemU32(value, p.value))

\* totp(secret, digits, epoch, interval, optional_seconds_since_epoch) under a
\* clock and a build profile.
Totp(sec, dig, ep, ivl, opt, clk, checks) ==
    LET decoded == Base32Decode(ToUppercase(sec))
    IN IF decoded.tag = "None" THEN Err("Invalid base32")
       ELSE LET seconds == SecondsSinceEpoch(opt, clk, ep, checks)
            IN IF seconds.tag = "Panic" THEN seconds
               ELSE LET cnt == CounterOf(seconds.value, ivl)
                    IN IF cnt.tag = "Panic" THEN cnt
                       ELSE Truncate(HmacSha1(decoded.value, cnt.value), dig, checks)

(***************************************************************************)
(* main's helpers.                                                         *)
(***************************************************************************)
\* What read_line appends: the input up to and with its first newline.
RECURSIVE FirstLine(_)
FirstLine(s) ==
    IF Len(s) = 0 THEN <<>>
    ELSE IF s[1] = 10 THEN <<10>>
    ELSE <<s[1]>> \o FirstLine(Tail(s))

\* read_line_from_stdin.
ReadLineFromStdin(in) ==
    IF in.tag = "Err" THEN Err("Failed to read stdin")
    ELSE Ok(Trim(FirstLine(in.value)))

\* The decimal digits of n.
RECURSIVE Decimal(_)
Decimal(n) ==
    IF n < 10 THEN <<48 + n>>
    ELSE Decimal(n \div 10) \o <<48 + (n % 10)>>

\* format!("{:0digits$}", code): zeros on the left up to a width of at least dig.
FormatCode(code, dig) ==
    LET s == Decimal(code)
    IN IF Len(s) >= dig THEN s ELSE [i \in 1..(dig - Len(s)) |-> 48] \o s

\* What print_error_and_exit writes.
ErrorText(err) ==
    <<"\\x1B[1m\\x1B[31merror:\\x1B[0m\\x1B[0m", " ", err,
      "\n\nFor more information, try '", "\\x1B[1m--help\\x1B[0m", "'.", "\n">>

\* What the panic handler writes when a panic leaves main.
PanicText(msg) == <<"thread 'main' panicked", msg, "\n">>

(***************************************************************************)
(* Inputs.                                                                 *)
(***************************************************************************)
\* "JBSWY3DPEHPK3PXP"
SecretUpper ==
    <<74, 66, 83, 87, 89, 51, 68, 80, 69, 72, 80, 75, 51, 80, 88, 80>>

\* "jbswy3dpehpk3pxp"
SecretLower ==
    <<106, 98, 115, 119, 121, 51, 100, 112, 101, 104, 112, 107, 51, 112, 120, 112>>

\* "JbSwY3dPeHpK3pXp"
SecretMixed ==
    <<74, 98, 83, 119, 89, 51, 100, 80, 101, 72, 112, 75, 51, 112, 88, 112>>

\* "GEZDGNBVGY3TQOJQGEZDGNBVGY3TQOJQ"
SecretRfc ==
    <<71, 69, 90, 68, 71, 78, 66, 86, 71, 89, 51, 84, 81, 79, 74, 81, 71, 69, 90, 68, 71, 78, 66, 86, 71, 89, 51, 84, 81, 79, 74, 81>>

\* "INVALID!@#$"
SecretInvalid ==
    <<73, 78, 86, 65, 76, 73, 68, 33, 64, 35, 36>>

\* "JBSWY3DPEHPK3PX1"
SecretDigitOne ==
    <<74, 66, 83, 87, 89, 51, 68, 80, 69, 72, 80, 75, 51, 80, 88, 49>>

\* U+017F U+0062 U+0073 U+0077 U+0079 U+0033 U+0064 U+0070 U+0065 U+0068 U+0070 U+006B U+0033 U+0070 U+0078 U+0070
SecretLongS ==
    <<383, 98, 115, 119, 121, 51, 100, 112, 101, 104, 112, 107, 51, 112, 120, 112>>

\* U+006D U+00E9
SecretAccent ==
    <<109, 233>>

\* U+00DF "AAAAAA": sharp s, in upper case SS
SecretSharpS ==
    <<223, 65, 65, 65, 65, 65, 65>>

\* U+FB00 "AAAAAA": the ligature ff, in upper case FF
SecretLigature ==
    <<64256, 65, 65, 65, 65, 65, 65>>

\* U+0131 "AAAAAAA": dotless i, in upper case I
SecretDotlessI ==
    <<305, 65, 65, 65, 65, 65, 65, 65>>

\* U+212A "AAAAAAA": the Kelvin sign, an upper-case letter whose lower case is k
SecretKelvin ==
    <<8490, 65, 65, 65, 65, 65, 65, 65>>

\* "me"
SecretShort ==
    <<109, 101>>

\* Bounds of the inputs.
MaxEpoch == 2
MaxInterval == 3
MaxTime == 5
MaxDigits == 33

\* Secrets given to totp directly.
TotpSecrets ==
    {SecretUpper, SecretLower, SecretMixed, SecretRfc, SecretInvalid, SecretDigitOne,
     SecretLongS, SecretAccent, SecretSharpS, SecretLigature, SecretDotlessI, SecretKelvin,
     SecretShort, <<>>}

\* Secrets given on the command line.
ArgSecrets == {SecretUpper, SecretLower, SecretRfc, SecretInvalid, SecretLongS, SecretSharpS}

\* Standard input: its text, or a read that fails.
StdinInputs ==
    {Ok(SecretLower \o <<10>>), Ok(<<32, 32>> \o SecretUpper \o <<32, 13, 10>>),
     Ok(<<160>> \o SecretUpper \o <<12288, 10>>),
     Ok(SecretInvalid \o <<10>>), Ok(<<>>), Err("read_line")}

\* Explicit timestamps taken from the tests of the repository.
TestTimes == {59, 1111111109, 1234567890}

(***************************************************************************)
(* Initial states.                                                         *)
(***************************************************************************)
NoLocals ==
    /\ secret_bytes = Unset
    /\ seconds_since_epoch = Unset
    /\ counter = Unset
    /\ digest = Unset
    /\ result = Unset

NoOutput ==
    /\ stdout = <<>>
    /\ stderr = <<>>
    /\ exit_code = Unset

\* The program: Args::parse() has returned argv.
Init ==
    /\ pc = "main"
    /\ argv \in [base32_secret : {None} \cup {Some(s) : s \in ArgSecrets},
                 interval : {0, 30},
                 epoch : {0, 60},
                 digits : {0, 6, 8, 10},
                 seconds_since_epoch : {None, Some(59), Some(1111111109)}]
    /\ IF argv.base32_secret = None THEN stdin \in StdinInputs ELSE stdin = Ok(<<>>)
    /\ IF argv.seconds_since_epoch = None
       THEN clock \in {Ok(59), Err("SystemTimeError")}
       ELSE clock = Ok(59)
    /\ overflow_checks \in BOOLEAN
    /\ secret = Unset
    /\ digits = Unset
    /\ epoch = Unset
    /\ interval = Unset
    /\ optional_seconds_since_epoch = Unset
    /\ NoLocals
    /\ NoOutput

\* totp called on its own, as the tests call it: secrets of every kind under
\* the parameters of the tests, and every small epoch, interval and time
\* under one secret.
InitTotp ==
    /\ pc = "totp"
    /\ argv = Unset
    /\ stdin = Unset
    /\ overflow_checks \in BOOLEAN
    /\ \/ /\ secret \in TotpSecrets
          /\ digits \in {0, 6, 8, 10}
          /\ epoch = 0
          /\ interval \in {0, 30}
          /\ optional_seconds_since_epoch \in {Some(t) : t \in TestTimes}
          /\ clock = Ok(MaxTime)
       \/ /\ secret = SecretUpper
          /\ digits = 6
          /\ epoch \in 0..MaxEpoch
          /\ interval \in 0..MaxInterval
          /\ \/ /\ optional_seconds_since_epoch \in {Some(t) : t \in 0..MaxTime}
                /\ clock = Ok(MaxTime)
             \/ /\ optional_seconds_since_epoch = None
                /\ clock \in {Ok(t) : t \in 0..MaxTime} \cup {Err("SystemTimeError")}
    /\ NoLocals
    /\ NoOutput

\* A 20-byte digest: byte i is (first + (i - 1) * step) mod 256, with a last
\* byte of its own.
DigestOf(first, step, last) ==
    [i \in 1..20 |-> IF i = 20 THEN last ELSE (first + (i - 1) * step) % 256] \o <<>>

\* The truncation on its own: totp holding any digest.
InitTruncate ==
    /\ pc = "hashed"
    /\ argv = Unset
    /\ stdin = Unset
    /\ clock = Unset
    /\ overflow_checks \in BOOLEAN
    /\ secret = Unset
    /\ digits \in 0..MaxDigits
    /\ epoch = Unset
    /\ interval = Unset
    /\ optional_seconds_since_epoch = Unset
    /\ secret_bytes = Unset
    /\ seconds_since_epoch = Unset
    /\ counter = Unset
    /\ digest \in {DigestOf(first, step, last) : first \in {0, 127, 128, 255},
                                                   step \in {0, 1, 37},
                                                   last \in {16 * h + l : h \in {0, 7, 8, 15}, l \in 0..15}}
    /\ result = Unset
    /\ NoOutput

(***************************************************************************)
(* main.                                                                   *)
(***************************************************************************)
\* Mutant: the error leaves with status 0.
PrintErrorAndExitStatusZero(err) ==
    /\ stderr' = stderr \o ErrorText(err)
    /\ exit_code' = 0
    /\ pc' = "exited"
    /\ UNCHANGED <<argv, stdin, clock, overflow_checks, secret, digits, epoch, interval,
                   optional_seconds_since_epoch, secret_bytes, seconds_since_epoch,
                   counter, digest, result, stdout>>

\* print_error_and_exit(err).
PrintErrorAndExit(err) ==
    /\ stderr' = stderr \o ErrorText(err)
    /\ exit_code' = 1
    /\ pc' = "exited"
    /\ UNCHANGED <<argv, stdin, clock, overflow_checks, secret, digits, epoch, interval,
                   optional_seconds_since_epoch, secret_bytes, seconds_since_epoch,
                   counter, digest, result, stdout>>

\* main calls totp(&base32_secret, args.digits, args.epoch, args.interval,
\* args.seconds_since_epoch).
CallTotp(base32_secret) ==
    /\ secret' = base32_secret
    /\ digits' = argv.digits
    /\ epoch' = argv.epoch
    /\ interval' = argv.interval
    /\ optional_seconds_since_epoch' = argv.seconds_since_epoch
    /\ pc' = "totp"
    /\ UNCHANGED <<argv, stdin, clock, overflow_checks, secret_bytes, seconds_since_epoch,
                   counter, digest, result, stdout, stderr, exit_code>>

\* The secret is the argument, in ASCII upper case.
SecretFromArg ==
    /\ pc = "main"
    /\ argv.base32_secret.tag = "Some"
    /\ CallTotp(ToAsciiUppercase(argv.base32_secret.value))

\* Without the argument the secret is a trimmed line of standard input, in
\* ASCII upper case; a read that fails ends the run with its error.
SecretFromStdin ==
    /\ pc = "main"
    /\ argv.base32_secret.tag = "None"
    /\ LET line == ReadLineFromStdin(stdin)
       IN IF line.tag = "Ok"
          THEN CallTotp(ToAsciiUppercase(line.value))
          ELSE PrintErrorAndExit(line.msg)

\* Ok(code) => println!("{:0digits$}", code), and main returns.
PrintCode ==
    /\ pc = "returned"
    /\ result.tag = "Ok"
    /\ stdout' = stdout \o FormatCode(result.value, argv.digits) \o <<10>>
    /\ exit_code' = 0
    /\ pc' = "exited"
    /\ UNCHANGED <<argv, stdin, clock, overflow_checks, secret, digits, epoch, interval,
                   optional_seconds_since_epoch, secret_bytes, seconds_since_epoch,
                   counter, digest, result, stderr>>

\* Err(err) => print_error_and_exit(err).
PrintError ==
    /\ pc = "returned"
    /\ result.tag = "Err"
    /\ PrintErrorAndExit(result.msg)

\* A panic in totp leaves main: its message goes to standard error and the
\* process ends with status 101.
PanicExit ==
    /\ pc = "panicked"
    /\ stderr' = stderr \o PanicText(result.msg)
    /\ exit_code' = 101
    /\ pc' = "exited"
    /\ UNCHANGED <<argv, stdin, clock, overflow_checks, secret, digits, epoch, interval,
                   optional_seconds_since_epoch, secret_bytes, seconds_since_epoch,
                   counter, digest, result, stdout>>

(***************************************************************************)
(* totp, step by step.                                                     *)
(***************************************************************************)
Inputs == <<argv, stdin, clock, overflow_checks, secret, digits, epoch, interval,
            optional_seconds_since_epoch>>

\* base32::decode(.., &secret.to_uppercase()).ok_or("Invalid base32")?
DecodeSecret ==
    /\ pc = "totp"
    /\ LET decoded == Base32Decode(ToUppercase(secret))
       IN IF decoded.tag = "None"
          THEN /\ result' = Err("Invalid base32")
               /\ pc' = "returned"
               /\ UNCHANGED secret_bytes
          ELSE /\ secret_bytes' = decoded.value
               /\ pc' = "keyed"
               /\ UNCHANGED result
    /\ UNCHANGED <<Inputs, seconds_since_epoch, counter, digest, stdout, stderr, exit_code>>

\* let seconds_since_epoch = optional_seconds_since_epoch.unwrap_or_else(..)
ReadSeconds ==
    /\ pc = "keyed"
    /\ LET seconds == SecondsSinceEpoch(optional_seconds_since_epoch, clock, epoch,
                                        overflow_checks)
       IN IF seconds.tag = "Panic"
          THEN /\ result' = seconds
               /\ pc' = "panicked"
               /\ UNCHANGED seconds_since_epoch
          ELSE /\ seconds_since_epoch' = seconds.value
               /\ pc' = "timed"
               /\ UNCHANGED result
    /\ UNCHANGED <<Inputs, secret_bytes, counter, digest, stdout, stderr, exit_code>>

\* seconds_since_epoch / interval, the argument of hmac.update
DivideByInterval ==
    /\ pc = "timed"
    /\ LET cnt == CounterOf(seconds_since_epoch, interval)
       IN IF cnt.tag = "Panic"
          THEN /\ result' = cnt
               /\ pc' = "panicked"
               /\ UNCHANGED counter
          ELSE /\ counter' = cnt.value
               /\ pc' = "counted"
               /\ UNCHANGED result
    /\ UNCHANGED <<Inputs, secret_bytes, seconds_since_epoch, digest, stdout, stderr,
                   exit_code>>

\* hmac.update(&counter.to_be_bytes()); let result = hmac.finalize().into_bytes()
Hash ==
    /\ pc = "counted"
    /\ digest' = HmacSha1(secret_bytes, counter)
    /\ pc' = "hashed"
    /\ UNCHANGED <<Inputs, secret_bytes, seconds_since_epoch, counter, result, stdout,
                   stderr, exit_code>>

\* The offset, the four bytes, the mask and the modulus: Ok(code), or a panic.
DynamicTruncation ==
    /\ pc = "hashed"
    /\ LET code == Truncate(digest, digits, overflow_checks)
       IN /\ result' = code
          /\ pc' = IF code.tag = "Ok" THEN "returned" ELSE "panicked"
    /\ UNCHANGED <<Inputs, secret_bytes, seconds_since_epoch, counter, digest, stdout,
                   stderr, exit_code>>

TotpStep ==
    \/ DecodeSecret
    \/ ReadSeconds
    \/ DivideByInterval
    \/ Hash
    \/ DynamicTruncation

Next ==
    \/ SecretFromArg
    \/ SecretFromStdin
    \/ TotpStep
    \/ PrintCode
    \/ PrintError
    \/ PanicExit

\* A run of the program.
Spec == Init /\ [][Next]_vars

\* A call of totp.
SpecTotp == InitTotp /\ [][TotpStep]_vars

\* The truncation of a digest.
SpecTruncate == InitTruncate /\ [][DynamicTruncation]_vars

\* The counter handed to the hash is the u64 n (n below 2^31), as 8 big-endian bytes.
CounterIs(n) ==
    counter = <<0, 0, 0, 0, n \div 16777216, (n \div 65536) % 256, (n \div 256) % 256, n % 256>>

\* totp has handed its counter to the hash.
Counted == counter # Unset

\* totp has ended: it returned, or a panic left it.
Ended == pc \in {"returned", "panicked", "exited"} /\ result # Unset

\* C1 as stated: the counter fed to the keyed hash is
\* floor((timestamp - epoch) / interval) whenever timestamp >= epoch, for an
\* explicit timestamp as for the clock's.
C1_CounterSubtractsEpochAlways ==
    Counted =>
        /\ (optional_seconds_since_epoch.tag = "Some"
              /\ optional_seconds_since_epoch.value >= epoch)
           => CounterIs((optional_seconds_since_epoch.value - epoch) \div interval)
        /\ (optional_seconds_since_epoch.tag = "None" /\ clock.value >= epoch)
           => CounterIs((clock.value - epoch) \div interval)

\* C1 amended: from the clock (None, now >= epoch) the counter is
\* floor((now - epoch) / interval); an explicit timestamp Some(t) is used as
\* given, the counter is floor(t / interval) and epoch plays no part.
C1_Counter ==
    Counted =>
        /\ optional_seconds_since_epoch.tag = "Some"
           => CounterIs(optional_seconds_since_epoch.value \div interval)
        /\ (optional_seconds_since_epoch.tag = "None" /\ clock.value >= epoch)
           => CounterIs((clock.value - epoch) \div interval)

\* C1 witness: an explicit timestamp under an epoch that would change its window.
C1_Witness ==
    /\ pc = "counted"
    /\ optional_seconds_since_epoch = Some(4)
    /\ epoch = 2
    /\ interval = 2
    /\ counter = U64(2)

\* C2 as stated: with interval = 0, a call of totp that has its secret decoded
\* and its seconds read ends with the error value InvalidInterval: it does
\* not divide, does not panic and gives no code.
C2_ZeroIntervalIsAnErrorValue ==
    (Ended /\ interval = 0 /\ seconds_since_epoch # Unset) =>
        /\ counter = Unset
        /\ result = Err("InvalidInterval")

\* C3: every code totp returns is in 0 .. 10^digits - 1 (a code is below 2^31,
\* so below 10^digits for digits >= 10).
C3_RangeInvariant ==
    (Ended /\ result.tag = "Ok") =>
        /\ result.value >= 0
        /\ digits >= 10 \/ result.value < 10 ^ digits

\* C3 witness: the RFC 6238 vector for t = 59.
C3_Witness ==
    /\ pc = "returned"
    /\ secret = SecretRfc
    /\ digits = 8
    /\ interval = 30
    /\ optional_seconds_since_epoch = Some(59)
    /\ result = Ok(94287082)

\* The explicit timestamps a returned code is compared with.
OtherTimes(t) == (0..MaxTime) \cup {t + 15}

\* C4 as stated: explicit timestamps t1, t2 >= epoch with
\* floor((t1 - epoch) / interval) = floor((t2 - epoch) / interval) give the
\* same code, for every epoch.
C4_SameEpochWindowSameCode ==
    (pc = "returned" /\ result.tag = "Ok" /\ optional_seconds_since_epoch.tag = "Some") =>
        \A t2 \in OtherTimes(optional_seconds_since_epoch.value) :
            (/\ optional_seconds_since_epoch.value >= epoch
             /\ t2 >= epoch
             /\ (optional_seconds_since_epoch.value - epoch) \div interval
                    = (t2 - epoch) \div interval)
            => Totp(secret, digits, epoch, interval, Some(t2), clock, overflow_checks) = result

\* C4 amended: explicit timestamps t1, t2 with floor(t1 / interval) =
\* floor(t2 / interval) give the same code, for every epoch.
C4_SameWindowSameCode ==
    (pc = "returned" /\ result.tag = "Ok" /\ optional_seconds_since_epoch.tag = "Some") =>
        \A t2 \in OtherTimes(optional_seconds_since_epoch.value) :
            (optional_seconds_since_epoch.value \div interval = t2 \div interval)
            => Totp(secret, digits, epoch, interval, Some(t2), clock, overflow_checks) = result

\* C4 witness: a code for t1 = 2 under epoch 1 and interval 2; t2 = 3 shares
\* its window.
C4_Witness ==
    /\ pc = "returned"
    /\ result.tag = "Ok"
    /\ optional_seconds_since_epoch = Some(2)
    /\ epoch = 1
    /\ interval = 2

\* The secret with its ASCII letters in upper, in lower and in swapped case.
AsciiUpper(s) == [i \in 1..Len(s) |-> IF s[i] >= 97 /\ s[i] <= 122 THEN s[i] - 32 ELSE s[i]]
AsciiLower(s) == [i \in 1..Len(s) |-> IF s[i] >= 65 /\ s[i] <= 90 THEN s[i] + 32 ELSE s[i]]
AsciiSwap(s) ==
    [i \in 1..Len(s) |-> IF s[i] >= 97 /\ s[i] <= 122 THEN s[i] - 32
                         ELSE IF s[i] >= 65 /\ s[i] <= 90 THEN s[i] + 32
                         ELSE s[i]]

\* The lower case of the letters of the inputs: A..Z, and the upper-case
\* letters outside ASCII (Kelvin sign to k, capital sharp s to sharp s, E-acute).
LetterLower(s) ==
    [i \in 1..Len(s) |-> IF s[i] >= 65 /\ s[i] <= 90 THEN s[i] + 32
                         ELSE IF s[i] = 8490 THEN 107
                         ELSE IF s[i] = 7838 THEN 223
                         ELSE IF s[i] = 201 THEN 233
                         ELSE s[i]]

\* C6 as stated: the outcome of totp (code, error or panic) is the outcome for
\* the secret in upper case, and changing the case of any of its letters,
\* ASCII or not, never changes it.
C6_AnyLetterCase ==
    (pc \in {"returned", "panicked"}) =>
        \A s \in {ToUppercase(secret), AsciiUpper(secret), AsciiLower(secret),
                  AsciiSwap(secret), LetterLower(secret)} :
            Totp(s, digits, epoch, interval, optional_seconds_since_epoch, clock,
                 overflow_checks) = result

\* C6 amended: the outcome of totp is the outcome for the secret in upper case
\* (str::to_uppercase), and changing the case of its ASCII letters (all to upper,
\* all to lower, each swapped) never changes it.
C6_CaseInsensitive ==
    (pc \in {"returned", "panicked"}) =>
        \A s \in {ToUppercase(secret), AsciiUpper(secret), AsciiLower(secret),
                  AsciiSwap(secret)} :
            Totp(s, digits, epoch, interval, optional_seconds_since_epoch, clock,
                 overflow_checks) = result

\* C6 witness: a code for a secret of mixed case.
C6_Witness ==
    /\ pc = "returned"
    /\ secret = SecretMixed
    /\ result.tag = "Ok"

\* C7 as stated: what a successful run prints is exactly digits characters
\* and a newline.
C7_ExactlyDigitsCharacters ==
    (pc = "exited" /\ exit_code = 0) => Len(stdout) = argv.digits + 1

\* Text that is one or more decimal digits and then a newline.
IsCodeLine(s) ==
    /\ Len(s) >= 2
    /\ s[Len(s)] = 10
    /\ \A i \in 1..(Len(s) - 1) : s[i] >= 48 /\ s[i] <= 57

\* C8: a run that has not ended has written nothing to standard output and
\* has its next step (a returned totp gave a code or an error, a panic is on
\* its way out); a run that has ended either wrote a whole code line to
\* standard output, nothing to standard error, and left with status 0, or
\* wrote nothing to standard output, a message to standard error, and left
\* with another status.
C8_OneOutcome ==
    /\ pc # "exited" =>
          /\ stdout = <<>>
          /\ exit_code = Unset
          /\ pc \in {"main", "totp", "keyed", "timed", "counted", "hashed", "returned",
                     "panicked"}
          /\ pc = "returned" => result.tag \in {"Ok", "Err"}
          /\ pc = "panicked" => result.tag = "Panic"
    /\ pc = "exited" =>
          \/ /\ exit_code = 0
             /\ IsCodeLine(stdout)
             /\ stderr = <<>>
          \/ /\ exit_code \in {1, 101}
             /\ stdout = <<>>
             /\ stderr # <<>>

\* C8 witness: the run ended on a read of standard input that failed.
C8_Witness ==
    /\ pc = "exited"
    /\ stdin.tag = "Err"
    /\ argv.base32_secret = None
    /\ exit_code = 1
    /\ stderr = ErrorText("Failed to read stdin")

\* C9: the offset is in 0..15, its four bytes lie inside the digest, the
\* truncation never fails on the slice, and the masked value is in 0 .. 2^31 - 1.
C9_TruncationInBounds ==
    /\ Offset(digest) \in 0..15
    /\ Offset(digest) + 4 <= Len(digest)
    /\ MaskedValue(SubSeq(digest, Offset(digest) + 1, Offset(digest) + 4)) \in 0..2147483647
    /\ pc # "hashed" => result # Panic("range end index out of range for slice")

\* C9 witness: the last offset, over four bytes 0xFF.
C9_Witness ==
    /\ pc = "returned"
    /\ Offset(digest) = 15
    /\ SubSeq(digest, 16, 19) = <<255, 255, 255, 255>>
    /\ MaskedValue(SubSeq(digest, 16, 19)) = 2147483647

\* C10: 10^digits fits a u32 exactly for digits 0..9, and then the code is the
\* masked value mod 10^digits; from digits = 10 on the power overflows, and
\* totp panics (overflow checks) or goes on with the wrapped power: it never
\* returns an error value.
C10_ModulusIn32Bits ==
    /\ Pow10(digits).overflow <=> digits >= 10
    /\ pc # "hashed" =>
          /\ digits <= 9 =>
                result = Ok(MaskedValue(SubSeq(digest, Offset(digest) + 1, Offset(digest) + 4))
                                % (10 ^ digits))
          /\ digits >= 10 =>
                /\ result.tag \in {"Ok", "Panic"}
                /\ overflow_checks => result = Panic("attempt to multiply with overflow")

\* C10 witness: digits = 10 in a build that wraps: a code comes back.
C10_Witness ==
    /\ pc = "returned"
    /\ digits = 10
    /\ ~overflow_checks
    /\ result.tag = "Ok"

====
